---- MODULE Spec2Model ----
(***************************************************************************)
(* substring::basic_substring<charT, traits, Assert> (src/substring.hpp):  *)
(* a (start, length) window onto character storage it does not own.        *)
(*                                                                         *)
(* One view v lives over a character literal `lit` of N elements (the last *)
(* one the implicit terminator).  Every member function the view offers is *)
(* an action; `call` records the call just made (its name, its arguments   *)
(* and the view it was made on) and `ret` what it returned.                *)
(*                                                                         *)
(* size_type is an unsigned integer of SizeBits bits: all arithmetic on    *)
(* lengths is taken modulo 2^SizeBits.  Pointer arithmetic is defined      *)
(* while it stays inside the array (one past its end included); where the  *)
(* C++ standard leaves it undefined the result is any pointer, and a read  *)
(* outside the array yields any character.                                 *)
(*                                                                         *)
(* Member functions are called on views that satisfy the caller-maintained *)
(* invariant (start .. start+length inside one allocation).  A call may    *)
(* leave v outside it (pop on an empty view, substr past the end under the *)
(* no-op policy); such a view is only ever replaced.                       *)
(***************************************************************************)
EXTENDS Integers, Sequences, FiniteSets

\* Width of size_type in the model, the number of characters of the literal
\* (its array has LitLen + 1 elements), and the largest small argument a
\* caller passes for pos and n.
SizeBits == 3
LitLen == 2
MaxArg == 2

Modulus == 2^SizeBits

\* static const size_type npos = -1;
npos == Modulus - 1

\* const charT (&str)[N]
N == LitLen + 1

\* charT values; 0 is charT(), the terminator.
Chars == {0, 1}

\* The Assert template parameter: assert::empty_assert (the default) checks
\* nothing; a throwing policy raises std::out_of_range when its predicate
\* is false.
Policies == {"empty_assert", "throwing_assert"}

VARIABLES lit, policy, v, call, ret, origin, disciplined, popSeq

vars == <<lit, policy, v, call, ret, origin, disciplined, popSeq>>

Min(a, b) == IF a <= b THEN a ELSE b

----------------------------------------------------------------------------
\* Storage and pointers.  A pointer is (buf, start): an offset into the
\* literal ("lit"), into the string to_string returned ("str"), the null
\* pointer ("null") or an address outside every array ("wild").

\* Number of elements of the array a pointer points into; data() of a
\* string of n characters is an array of n + 1.
ArrLen(buf) ==
    IF buf = "lit" THEN N
    ELSE IF buf = "str" THEN Len(ret.str) + 1
    ELSE 0

\* The element at offset off of an array, off < ArrLen(buf).
Mem(buf, off) ==
    IF buf = "lit" THEN lit[off]
    ELSE IF off < Len(ret.str) THEN ret.str[off + 1]
    ELSE 0

\* Every pointer value an undefined pointer computation may produce.
AnyPtr ==
    {[buf |-> "lit", start |-> o] : o \in 0..N} \cup {[buf |-> "wild", start |-> 0]}

\* p + k for unsigned k: defined up to one past the end of the array.
PtrAdd(buf, start, k) ==
    IF start + k <= ArrLen(buf)
    THEN {[buf |-> buf, start |-> start + k]}
    ELSE AnyPtr

\* *p: the outcomes of reading through a pointer.
Deref(buf, off) ==
    IF buf \in {"lit", "str"} /\ off < ArrLen(buf) THEN {Mem(buf, off)} ELSE Chars

\* traits_type::length(s): the distance from s to the first terminator.
RECURSIVE TraitsLength(_)
TraitsLength(off) ==
    IF lit[off] = 0 THEN 0 ELSE 1 + TraitsLength(off + 1)

----------------------------------------------------------------------------
\* Views.

\* basic_substring(): start(), length()
DefaultView == [buf |-> "null", start |-> 0, length |-> 0]

\* basic_substring(const charT* s, size_type n)
PtrLenView(s, n) == [buf |-> "lit", start |-> s, length |-> n]

\* explicit basic_substring(const charT* s)
CStrView(s) == [buf |-> "lit", start |-> s, length |-> TraitsLength(s)]

\* make_substring(const charT (&str)[N])
MakeSubstringView == PtrLenView(0, N - 1)

\* explicit basic_substring(const std::basic_string&): s.data(), s.size()
StringView(s) == [buf |-> "str", start |-> 0, length |-> Len(s)]

\* The caller-maintained invariant: start .. start+length lies within one
\* live allocation.
Valid(x) == x.buf \in {"lit", "str", "null"} /\ x.start + x.length <= ArrLen(x.buf)

Begin(x) == x.start

End(x) == x.start + x.length

Size(x) == x.length

\* bool empty() const { return length; }: the size_type converts to bool.
Empty(x) == x.length # 0

----------------------------------------------------------------------------
\* The Bounds-Check Policy.

\* assert_type::out_of_range_assert(predicate, message): the out-of-range
\* condition is the predicate being false.
Triggered(pred) == ~pred

\* Whether the call leaves by an exception instead of returning.
Throws(pred) == Triggered(pred) /\ policy = "throwing_assert"

\* A faulty variant of SubrangeCheck: std::less in place of std::less_equal.
SubrangeCheck_Strict(pos, size) == pos < size

\* bind1st(less_equal<size_type>(), pos) applied to size: "pos > size"
SubrangeCheck(pos, size) == pos <= size

\* A faulty variant of AtCheck: std::less_equal in place of std::less.
AtCheck_Inclusive(pos, size) == pos <= size

\* bind1st(less<size_type>(), pos) applied to size(): "pos >= size"
AtCheck(pos, size) == pos < size

----------------------------------------------------------------------------
\* Member functions, as functions of the view.

\* A faulty variant of SubLength: length = n, the std::min forgotten.
SubLength_NoClamp(n, size, pos) == n

\* length = std::min(n, size - pos), in size_type
SubLength(n, size, pos) == Min(n, (size - pos) % Modulus)

\* basic_substring(const basic_substring& substring, size_type pos,
\* size_type n), past its assertion: the views it may construct.
SubRange(x, pos, n) ==
    {[buf |-> p.buf, start |-> p.start, length |-> SubLength(n, Size(x), pos)] :
        p \in PtrAdd(x.buf, Begin(x), pos)}

\* start[pos]: the outcomes of operator[] (and of at, past its assertion).
OpIndex(x, pos) ==
    UNION {Deref(p.buf, p.start) : p \in PtrAdd(x.buf, x.start, pos)}

\* A faulty variant of ClearView: *this = basic_substring(), which drops start too.
ClearView_Reset(x) == DefaultView

\* void clear() { length = 0; }
ClearView(x) == [x EXCEPT !.length = 0]

\* A faulty variant of PopLength: the decrement forgotten.
PopLength_Keep(len) == len

\* --length, in size_type
PopLength(len) == (len - 1) % Modulus

\* void pop_front() { ++start; --length; }: the views it may leave.
PopFrontViews(x) ==
    {[buf |-> p.buf, start |-> p.start, length |-> PopLength(x.length)] :
        p \in PtrAdd(x.buf, x.start, 1)}

\* void pop_back() { --length; }
PopBackView(x) == [x EXCEPT !.length = PopLength(x.length)]

\* void swap(basic_substring& rhs): <<*this, rhs>> after the call.
SwapViews(lhs, rhs) ==
    << [buf |-> rhs.buf, start |-> rhs.start, length |-> rhs.length],
       [buf |-> lhs.buf, start |-> lhs.start, length |-> lhs.length] >>

\* std::basic_string(start, length): copies exactly n characters from p on.
RECURSIVE StringFromRange(_, _, _)
StringFromRange(buf, p, n) ==
    IF n = 0 THEN <<>>
    ELSE <<Mem(buf, p)>> \o StringFromRange(buf, p + 1, n - 1)

\* A faulty variant of ToStringOf: std::basic_string(start), which stops at the
\* first terminator.
RECURSIVE StringUntilTerminator(_, _, _)
StringUntilTerminator(buf, p, n) ==
    IF n = 0 \/ Mem(buf, p) = 0 THEN <<>>
    ELSE <<Mem(buf, p)>> \o StringUntilTerminator(buf, p + 1, n - 1)

ToStringOf_CStr(x) == StringUntilTerminator(x.buf, x.start, x.length)

\* std::basic_string to_string() const
ToStringOf(x) == StringFromRange(x.buf, x.start, x.length)

\* for (it = begin(); it != end(); ++it) yield *it
RECURSIVE IterRun(_, _, _)
IterRun(buf, it, last) ==
    IF it = last THEN <<>>
    ELSE <<Mem(buf, it)>> \o IterRun(buf, it + 1, last)

Forward(x) == IterRun(x.buf, Begin(x), End(x))

\* std::reverse_iterator over const_iterator: it holds `current`,
\* *it is *(current - 1), ++it is --current.
\* for (it = rbegin(); it != rend(); ++it) yield *it
RECURSIVE RevRun(_, _, _)
RevRun(buf, current, last) ==
    IF current = last THEN <<>>
    ELSE <<Mem(buf, current - 1)>> \o RevRun(buf, current - 1, last)

\* A faulty variant of Backward: rbegin() and rend() returning begin() and end().
Backward_AsForward(x) == Forward(x)

\* rbegin() is reverse_iterator(end()), rend() is reverse_iterator(begin())
Backward(x) == RevRun(x.buf, End(x), Begin(x))

\* traits_type::compare(s1, s2, n): the sign of the first difference.
RECURSIVE TraitsCompare(_, _, _, _, _)
TraitsCompare(b1, p1, b2, p2, n) ==
    IF n = 0 THEN 0
    ELSE IF Mem(b1, p1) < Mem(b2, p2) THEN 0 - 1
    ELSE IF Mem(b1, p1) > Mem(b2, p2) THEN 1
    ELSE TraitsCompare(b1, p1 + 1, b2, p2 + 1, n - 1)

\* rhs.length(): length is a data member of type size_type, which has no
\* call operator, so the expression has no value: every instantiation of
\* operator== is rejected by the compiler.
CallLength(rhs) == {}

\* bool operator ==(const basic_substring& rhs): the values it can return.
OpEq(lhs, rhs) ==
    {lhs.length = len /\ TraitsCompare(lhs.buf, lhs.start, rhs.buf, rhs.start, lhs.length) = 0 :
        len \in CallLength(rhs)}

\* bool operator !=(const basic_substring& rhs) { return !(*this == rhs); }
OpNe(lhs, rhs) == {~b : b \in OpEq(lhs, rhs)}

----------------------------------------------------------------------------
\* The calls.

\* Arguments a caller passes for pos and n: small values, and npos (the
\* default of n).
SizeInputs == (0..MaxArg) \cup {npos}

NoRet ==
    [thrown |-> FALSE, asserted |-> FALSE, ch |-> 0, str |-> <<>>, view |-> DefaultView]

\* A member call on v, and a construction (made on no earlier view).
Called(op, pos, n) == [op |-> op, pos |-> pos, n |-> n, pre |-> v]

Constructed(op, s, n) == [op |-> op, pos |-> s, n |-> n, pre |-> DefaultView]

TypeOK ==
    /\ lit \in [0..LitLen -> Chars]
    /\ policy \in Policies
    /\ v.length \in 0..npos
    /\ disciplined \in BOOLEAN
    /\ popSeq \in 0..2

Init ==
    /\ lit \in {f \in [0..LitLen -> Chars] : f[LitLen] = 0}
    /\ policy \in Policies
    /\ v = MakeSubstringView
    /\ call = [op |-> "make_substring", pos |-> 0, n |-> 0, pre |-> DefaultView]
    /\ ret = NoRet
    /\ origin = MakeSubstringView
    /\ disciplined = TRUE
    /\ popSeq = 0

\* A view newly bound to a range: what the containment of later
\* sub-ranges is measured against.
Bind(x) ==
    /\ v' = x
    /\ origin' = x
    /\ disciplined' = TRUE
    /\ popSeq' = 0
    /\ UNCHANGED <<lit, policy>>

\* v = basic_substring()
Default ==
    /\ Bind(DefaultView)
    /\ call' = Constructed("default", 0, 0)
    /\ ret' = NoRet

\* v = make_substring(lit)
MakeSubstring ==
    /\ Bind(MakeSubstringView)
    /\ call' = Constructed("make_substring", 0, 0)
    /\ ret' = NoRet

\* v = basic_substring(lit + s, n), inside the array
ConstructPtrLen(s, n) ==
    /\ s + n <= N
    /\ Bind(PtrLenView(s, n))
    /\ call' = Constructed("ptr_len", s, n)
    /\ ret' = NoRet

\* v = basic_substring(lit + s)
ConstructCStr(s) ==
    /\ Bind(CStrView(s))
    /\ call' = Constructed("cstr", s, 0)
    /\ ret' = NoRet

\* basic_substring tmp(lit + s, LitLen - s); v.swap(tmp): ret.view is tmp
\* afterwards
Swap(s) ==
    /\ Bind(SwapViews(v, PtrLenView(s, LitLen - s))[1])
    /\ call' = Called("swap", s, LitLen - s)
    /\ ret' = [NoRet EXCEPT !.view = SwapViews(v, PtrLenView(s, LitLen - s))[2]]

\* v = v.substr(pos, n)
Substr(pos, n) ==
    /\ Valid(v)
    /\ call' = Called("substr", pos, n)
    /\ disciplined' = (disciplined /\ pos <= Size(v))
    /\ origin' = IF disciplined' THEN origin ELSE DefaultView
    /\ popSeq' = 0
    /\ IF Throws(SubrangeCheck(pos, Size(v)))
       THEN /\ v' = v
            /\ ret' = [NoRet EXCEPT !.thrown = TRUE, !.asserted = TRUE]
       ELSE /\ v' \in SubRange(v, pos, n)
            /\ ret' = [NoRet EXCEPT !.asserted = Triggered(SubrangeCheck(pos, Size(v))),
                                    !.view = v']
    /\ UNCHANGED <<lit, policy>>

\* v.at(pos)
At(pos) ==
    /\ Valid(v)
    /\ call' = Called("at", pos, 0)
    /\ popSeq' = 0
    /\ IF Throws(AtCheck(pos, Size(v)))
       THEN ret' = [NoRet EXCEPT !.thrown = TRUE, !.asserted = TRUE]
       ELSE \E c \in OpIndex(v, pos) :
                ret' = [NoRet EXCEPT !.asserted = Triggered(AtCheck(pos, Size(v))),
                                     !.ch = c]
    /\ UNCHANGED <<lit, policy, v, origin, disciplined>>

\* v.clear()
Clear ==
    /\ Valid(v)
    /\ call' = Called("clear", 0, 0)
    /\ v' = ClearView(v)
    /\ ret' = NoRet
    /\ popSeq' = 0
    /\ UNCHANGED <<lit, policy, origin, disciplined>>

\* v.pop_front()
PopFront ==
    /\ Valid(v)
    /\ call' = Called("pop_front", 0, 0)
    /\ v' \in PopFrontViews(v)
    /\ ret' = NoRet
    /\ disciplined' = (disciplined /\ Size(v) > 0)
    /\ origin' = IF disciplined' THEN origin ELSE DefaultView
    /\ popSeq' = IF Valid(v) /\ Size(v) = 2 THEN 1 ELSE 0
    /\ UNCHANGED <<lit, policy>>

\* v.pop_back()
PopBack ==
    /\ Valid(v)
    /\ call' = Called("pop_back", 0, 0)
    /\ v' = PopBackView(v)
    /\ ret' = NoRet
    /\ disciplined' = (disciplined /\ Size(v) > 0)
    /\ origin' = IF disciplined' THEN origin ELSE DefaultView
    /\ popSeq' = IF popSeq = 1 THEN 2 ELSE 0
    /\ UNCHANGED <<lit, policy>>

\* std::string s = v.to_string(); basic_substring w(s): ret.str is s and
\* ret.view is w.  The characters start .. start+length are read, so the
\* call is made on a view of the literal that lies inside it.
ToString ==
    /\ v.buf = "lit"
    /\ Valid(v)
    /\ call' = Called("to_string", 0, 0)
    /\ ret' = [NoRet EXCEPT !.str = ToStringOf(v), !.view = StringView(ToStringOf(v))]
    /\ popSeq' = 0
    /\ UNCHANGED <<lit, policy, v, origin, disciplined>>

Next ==
    \/ Default
    \/ MakeSubstring
    \/ \E s \in 0..N : \E n \in 0..N : ConstructPtrLen(s, n)
    \/ \E s \in 0..LitLen : ConstructCStr(s)
    \/ \E s \in 0..LitLen : Swap(s)
    \/ \E pos \in SizeInputs : \E n \in SizeInputs : Substr(pos, n)
    \/ \E pos \in SizeInputs : At(pos)
    \/ Clear
    \/ PopFront
    \/ PopBack
    \/ ToString

Spec == Init /\ [][Next]_vars

----------------------------------------------------------------------------
\* What the claims speak of.

\* The characters of a view, offsets 0 .. size()-1 from start.
Content(x) == [i \in 1..x.length |-> Mem(x.buf, x.start + i - 1)]

Reversed(s) == [i \in 1..Len(s) |-> s[Len(s) + 1 - i]]

\* Equal length and identical characters over that length.
ContentEqual(a, b) ==
    /\ a.length = b.length
    /\ \A i \in 0..(a.length - 1) : Mem(a.buf, a.start + i) = Mem(b.buf, b.start + i)

\* The views of the literal a caller can validly construct.
LitViews ==
    {x \in {PtrLenView(s, n) : s \in 0..N, n \in 0..N} : x.start + x.length <= N}

ShrinkOps == {"substr", "pop_front", "pop_back", "clear"}

----------------------------------------------------------------------------
\* C1: empty() returns true exactly when size() == 0.
C1_EmptyIffSizeZero == Empty(v) = (Size(v) = 0)

\* C2 as stated: for all pos and n, substr(pos, n) yields a view of length
\* min(n, size() - pos) that starts at start + pos, and of length
\* size() - pos whenever pos + n > size().
C2_ClampLaw_AnyPos ==
    (call.op = "substr" /\ ~ret.thrown) =>
        /\ v.buf = call.pre.buf
        /\ v.start = call.pre.start + call.pos
        /\ v.length = Min(call.n, (call.pre.length - call.pos) % Modulus)
        /\ (call.pos + call.n > call.pre.length) =>
                v.length = (call.pre.length - call.pos) % Modulus

\* C2 amended: for pos <= size() and any n (npos included), substr(pos, n)
\* returns a view of length min(n, size() - pos) that starts at start + pos;
\* its length is size() - pos whenever pos + n > size().
C2_ClampLaw ==
    (call.op = "substr" /\ call.pos <= call.pre.length) =>
        /\ ~ret.thrown
        /\ ret.view = v
        /\ v.buf = call.pre.buf
        /\ v.start = call.pre.start + call.pos
        /\ v.length = Min(call.n, call.pre.length - call.pos)
        /\ v.length <= call.pre.length - call.pos
        /\ (call.pos + call.n > call.pre.length) =>
                v.length = call.pre.length - call.pos

C2_Witness ==
    /\ call.op = "substr"
    /\ call.pos > 0
    /\ call.pos < call.pre.length
    /\ call.n < npos
    /\ call.pos + call.n > call.pre.length
    /\ v.length = call.pre.length - call.pos

\* C3: substr(pos, n) triggers the out-of-range policy exactly when
\* pos > size(), whatever n is; pos == size() gives an empty view and no
\* error.
C3_SubstrPolicy ==
    call.op = "substr" =>
        /\ ret.asserted <=> (call.pos > call.pre.length)
        /\ ret.thrown => ret.asserted
        /\ (call.pos = call.pre.length) => (~ret.thrown /\ Size(v) = 0)

C3_Witness ==
    /\ call.op = "substr"
    /\ call.pos = call.pre.length + 1
    /\ call.n = 0
    /\ ret.asserted
    /\ ret.thrown

\* C4: at(pos) triggers the out-of-range policy exactly when pos >= size();
\* for pos < size() it returns the character at offset pos from start, the
\* value operator[](pos) has.
C4_AtPolicy ==
    call.op = "at" =>
        /\ ret.asserted <=> (call.pos >= call.pre.length)
        /\ (call.pos < call.pre.length) =>
                /\ ~ret.thrown
                /\ ret.ch = Mem(call.pre.buf, call.pre.start + call.pos)
                /\ OpIndex(call.pre, call.pos) = {ret.ch}

C4_Witness ==
    /\ call.op = "at"
    /\ call.pos > 0
    /\ call.pos < call.pre.length
    /\ ~ret.asserted
    /\ ret.ch = 1

\* C5: A == B is true iff A and B have equal length and identical
\* characters, A != B is its negation, and V == V holds.
C5_EqualityByContent ==
    (v.buf = "lit" /\ Valid(v)) =>
        /\ OpEq(v, v) = {TRUE}
        /\ \A rhs \in LitViews :
                /\ OpEq(v, rhs) = {ContentEqual(v, rhs)}
                /\ OpNe(v, rhs) = {~ContentEqual(v, rhs)}

\* C6: pop_front and then pop_back on a view of 2 characters leaves
\* size() == 0 and empty() true.
C6_PopBothEnds == (popSeq = 2) => (Size(v) = 0 /\ Empty(v))

\* C7: iterating a validly constructed view from begin() to end() visits
\* its size() characters in increasing order of offset, and from rbegin()
\* to rend() the same characters in reverse order.
C7_Iteration ==
    \A x \in {v, ret.view} :
        Valid(x) =>
            /\ Len(Forward(x)) = Size(x)
            /\ Forward(x) = Content(x)
            /\ Backward(x) = Reversed(Content(x))

C7_Witness ==
    /\ Valid(v)
    /\ Size(v) >= 2
    /\ Forward(v) # Backward(v)
    /\ ret.view.buf = "str"
    /\ Size(ret.view) >= 2

\* C8: to_string() returns a string of exactly size() characters equal to
\* the view's content, and a view over that string equals the view by
\* content, embedded terminators included.
C8_RoundTrip ==
    call.op = "to_string" =>
        /\ Len(ret.str) = Size(v)
        /\ ret.str = Content(v)
        /\ ret.view.buf = "str"
        /\ Size(ret.view) = Size(v)
        /\ ContentEqual(ret.view, v)
        /\ ContentEqual(v, ret.view)

C8_Witness ==
    /\ call.op = "to_string"
    /\ Size(v) >= 2
    /\ ret.str[1] = 0
    /\ ret.str[2] = 1
    /\ Size(ret.view) = Size(v)

\* C9: clear() sets length to zero and leaves start unchanged; on an empty
\* view it changes nothing, and clearing twice is clearing once.
C9_Clear ==
    call.op = "clear" =>
        /\ v.length = 0
        /\ v.buf = call.pre.buf
        /\ v.start = call.pre.start
        /\ (call.pre.length = 0) => (v = call.pre)
        /\ ClearView(v) = v

C9_Witness ==
    /\ call.op = "clear"
    /\ call.pre.length > 0
    /\ call.pre.start > 0
    /\ v.length = 0

\* C10: after any sequence of substr(pos, n) with pos <= size(), pop_front
\* and pop_back on a non-empty view, and clear, the view stays inside the
\* range it was constructed over, and no such call increases its length.
Contained ==
    disciplined =>
        /\ v.buf = origin.buf
        /\ origin.start <= v.start
        /\ v.start + v.length <= origin.start + origin.length

C10_Containment ==
    /\ []Contained
    /\ [][(disciplined' /\ call'.op \in ShrinkOps) => v'.length <= v.length]_vars

C10_Witness ==
    /\ disciplined
    /\ call.op = "pop_front"
    /\ origin.start < v.start
    /\ v.start + v.length < origin.start + origin.length
    /\ v.length > 0

====
